---- MODULE Spec2Model ----
(***************************************************************************)
(* Model of src/src/robust_volatility_calculation.py: the request handler  *)
(* robust_volatility_calculation, the paginated store query, and the four  *)
(* numeric stages (daily aggregation, exponentially weighted volatility,   *)
(* absolute minimum clamp, rolling-quantile floor).                        *)
(*                                                                         *)
(* Floats are modelled in fixed point: a float is an integer number of     *)
(* units (one unit is 1e-11, so that vol_abs_min is 10 units); the results *)
(* of divisions and square roots are truncated to the unit.                *)
(* NaN ("no data") is the value NaN below; every comparison with NaN is    *)
(* false, as in IEEE arithmetic.  A pandas object is a record              *)
(* [index, values] of two sequences of the same length; index holds day    *)
(* numbers (days since the epoch).                                         *)
(***************************************************************************)
EXTENDS Integers, Sequences, FiniteSets, TLC

VARIABLES
    pc,                 \* position of the request in the handler
    body,               \* app.current_event.json_body
    instrument,         \* local of the handler (line 18)
    start_time,         \* local of the handler (line 19)
    now,                \* the wall clock, in seconds
    end_time,           \* local of retrieve_prices_from_dynamodb (line 37)
    last_key,           \* response['LastEvaluatedKey'], NoKey when absent
    items,              \* local of retrieve_prices_from_dynamodb
    queries,            \* history: the table.query calls issued, in order
    received,           \* history: the responses the store returned, in order
    fault,              \* history: the fault table.query raised, "" if none
    log,                \* the logger.error calls made
    error,              \* the exception that left the handler, NoError if none
    result,             \* the handler's return value, NoResult if none
    calls,              \* history: the pipeline functions called, in order
    raw_prices,         \* local of the handler (line 21)
    prices,             \* local of the handler (line 22)
    ewvol_returned,     \* history: what simple_ewvol_calc returned
    volatility,         \* local of the handler (line 25), mutated by line 94
    cutted_vol,         \* local of the handler (line 26)
    vol_min,            \* local of apply_vol_floor (lines 78-85)
    floored_volatility  \* local of the handler (line 28)

vars == <<pc, body, instrument, start_time, now, end_time, last_key, items,
          queries, received, fault, log, error, result, calls, raw_prices, prices,
          ewvol_returned, volatility, cutted_vol, vol_min, floored_volatility>>

request_vars == <<body, instrument, start_time>>
store_vars == <<now, end_time, last_key, items, queries, received, fault, log>>
stage_vars == <<raw_prices, prices, ewvol_returned, volatility, cutted_vol,
                vol_min, floored_volatility>>

(***************************************************************************)
(* Bounds of the model.                                                    *)
(***************************************************************************)
MaxPages == 3
MaxObs == 3
MaxDay == 2
MaxDays == 12
MaxLead == 1
MaxVolLevel == 3

(***************************************************************************)
(* Floats and pandas objects.                                              *)
(***************************************************************************)
NaN == -1

IsNaN(x) == x = NaN

\* x < y on floats: false when either side is NaN
FloatLt(x, y) == ~IsNaN(x) /\ ~IsNaN(y) /\ x < y

\* x >= y on floats: false when either side is NaN
FloatGe(x, y) == ~IsNaN(x) /\ ~IsNaN(y) /\ x >= y

EmptyFrame == [index |-> <<>>, values |-> <<>>]

Frame(idx, vals) == [index |-> idx, values |-> vals]

Size(frame) == Len(frame.values)

RECURSIVE SeqSum(_)
SeqSum(s) == IF s = <<>> THEN 0 ELSE Head(s) + SeqSum(Tail(s))

SetMin(S) == CHOOSE x \in S : \A y \in S : x <= y

SetMax(S) == CHOOSE x \in S : \A y \in S : x >= y

(***************************************************************************)
(* aggregate_to_day_based_prices (lines 60-66).                            *)
(***************************************************************************)
SecondsPerDay == 86400

\* pd.to_datetime(..., unit='s') followed by the 'D' bin of resample
to_datetime_day(ts) == ts \div SecondsPerDay

\* the prices of the observations of day d, in list order
PricesOfDay(raw, d) ==
    LET inDay == SelectSeq(raw, LAMBDA it : to_datetime_day(it.UnixDateTime) = d)
    IN  [i \in DOMAIN inDay |-> inDay[i].Price]

\* mean() of one resample bin: NaN for an empty bin
BinMean(ps) == IF ps = <<>> THEN NaN ELSE SeqSum(ps) \div Len(ps)

\* resample('D').mean() without the empty bins
ResampleDropEmpty(raw) ==
    LET days == {to_datetime_day(raw[i].UnixDateTime) : i \in DOMAIN raw}
        RECURSIVE Sorted(_)
        Sorted(S) == IF S = {} THEN <<>>
                     ELSE <<SetMin(S)>> \o Sorted(S \ {SetMin(S)})
        idx == Sorted(days)
    IN  Frame(idx, [k \in DOMAIN idx |-> BinMean(PricesOfDay(raw, idx[k]))])

\* resample('D').mean(): one bin per day from the first to the last observed day
ResampleDailyMean(raw) ==
    LET days  == {to_datetime_day(raw[i].UnixDateTime) : i \in DOMAIN raw}
        first == SetMin(days)
        last  == SetMax(days)
        n     == last - first + 1
    IN  Frame([k \in 1..n |-> first + k - 1],
              [k \in 1..n |-> BinMean(PricesOfDay(raw, first + k - 1))])

\* set_index('UnixDateTime') raises KeyError on a frame without that column,
\* which is what DataFrame.from_dict makes of an empty list
AggregateRaises(raw) == raw = <<>>

aggregate_to_day_based_prices(raw) == ResampleDailyMean(raw)

(***************************************************************************)
(* simple_ewvol_calc (lines 68-74): ewm(adjust=True, span=days,            *)
(* min_periods=min_periods).std(), computed as pandas' ewmcov recursion    *)
(* does (x = y, ignore_na=False, bias=False), followed by zsqrt.           *)
(* Inside the recursion weights, means and covariances carry FP            *)
(* fractional steps per unit.                                              *)
(***************************************************************************)
days == 35
min_periods == 10
FP == 100

\* x * old_wt_factor, old_wt_factor = 1 - alpha = (span - 1) / (span + 1)
Decay(x) == (x * (days - 1)) \div (days + 1)

\* the state of the recursion after the first element (ewmcov, before the loop)
EwmFirst(x0) ==
    [mean   |-> IF IsNaN(x0) THEN NaN ELSE x0 * FP,
     cov    |-> 0,
     sum_wt |-> FP, sum_wt2 |-> FP, old_wt |-> FP,
     nobs   |-> IF IsNaN(x0) THEN 0 ELSE 1]

\* the update of one observed value when a mean already exists
EwmObserve(st, cur) ==
    LET old_wt   == Decay(st.old_wt)
        old_mean == st.mean
        mean     == IF old_mean # cur * FP
                    THEN (old_wt * old_mean + FP * (cur * FP)) \div (old_wt + FP)
                    ELSE old_mean
        dOld     == old_mean - mean
        dCur     == cur * FP - mean
        cov      == (old_wt * (st.cov + (dOld * dOld) \div FP)
                     + FP * ((dCur * dCur) \div FP)) \div (old_wt + FP)
    IN  [mean    |-> mean,
         cov     |-> cov,
         sum_wt  |-> Decay(st.sum_wt) + FP,
         sum_wt2 |-> Decay(Decay(st.sum_wt2)) + FP,
         old_wt  |-> old_wt + FP,
         nobs    |-> st.nobs + 1]

\* a variant of EwmStep in which a missing value restarts the count
EwmStepResetOnNaN(st, cur) ==
    IF IsNaN(cur) THEN [st EXCEPT !.nobs = 0]
    ELSE IF IsNaN(st.mean) THEN [st EXCEPT !.mean = cur * FP, !.nobs = @ + 1]
    ELSE EwmObserve(st, cur)

\* one iteration of the loop of ewmcov
EwmStep(st, cur) ==
    IF ~IsNaN(st.mean)
    THEN IF IsNaN(cur)
         THEN [st EXCEPT !.sum_wt  = Decay(@),
                         !.sum_wt2 = Decay(Decay(@)),
                         !.old_wt  = Decay(@)]
         ELSE EwmObserve(st, cur)
    ELSE IF ~IsNaN(cur)
         THEN [st EXCEPT !.mean = cur * FP, !.nobs = @ + 1]
         ELSE st

\* the unbiased variance written to the output for one state (units^2)
EwmVarOut(st) ==
    IF st.nobs >= min_periods
    THEN LET numerator   == (st.sum_wt * st.sum_wt) \div FP
             denominator == numerator - st.sum_wt2
         IN  IF denominator > 0
             THEN ((numerator * st.cov) \div denominator) \div FP
             ELSE NaN
    ELSE NaN

ISqrt(v) == CHOOSE r \in 0..v : r * r <= v /\ (r + 1) * (r + 1) > v

\* zsqrt: the square root, 0 where the argument is negative, NaN kept
zsqrt(v) == IF IsNaN(v) THEN NaN ELSE IF v < 0 THEN 0 ELSE ISqrt(v)

RECURSIVE EwmStates(_, _, _)
\* the recursion states after elements i..Len(xs), st being the state after i-1
EwmStates(xs, i, st) ==
    IF i > Len(xs) THEN <<>>
    ELSE LET nxt == EwmStep(st, xs[i])
         IN  <<nxt>> \o EwmStates(xs, i + 1, nxt)

ewm_std(xs) ==
    IF xs = <<>> THEN <<>>
    ELSE LET sts == <<EwmFirst(xs[1])>> \o EwmStates(xs, 2, EwmFirst(xs[1]))
         IN  [i \in 1..Len(xs) |->
                 IF i = 1 THEN NaN ELSE zsqrt(EwmVarOut(sts[i]))]

simple_ewvol_calc(daily_returns) ==
    Frame(daily_returns.index, ewm_std(daily_returns.values))

(***************************************************************************)
(* apply_min_vol (lines 92-95).                                            *)
(***************************************************************************)
\* 1e-10, in units of 1e-11
vol_abs_min == 10

\* vol[vol < vol_abs_min] = vol_abs_min with NaN taken for a small value
ClampAlsoNaN(vol) ==
    Frame(vol.index,
          [i \in DOMAIN vol.values |->
              IF IsNaN(vol.values[i]) \/ vol.values[i] < vol_abs_min
              THEN vol_abs_min ELSE vol.values[i]])

apply_min_vol(vol) ==
    Frame(vol.index,
          [i \in DOMAIN vol.values |->
              IF FloatLt(vol.values[i], vol_abs_min)
              THEN vol_abs_min ELSE vol.values[i]])

(***************************************************************************)
(* apply_vol_floor (lines 76-90).                                          *)
(***************************************************************************)
\* 0.05, in hundredths
floor_min_quant == 5
floor_min_periods == 100
floor_days == 500

\* the non-missing values of xs, in increasing order
RECURSIVE SortedSet(_)
SortedSet(S) == IF S = {} THEN <<>> ELSE <<SetMin(S)>> \o SortedSet(S \ {SetMin(S)})

DistinctValues(xs) == SortedSet({xs[i] : i \in DOMAIN xs} \ {NaN})

RECURSIVE KthSmallest(_, _, _, _)
\* the element of rank k (from 0) of the window whose value counts are hist
KthSmallest(hist, sorted, j, k) ==
    IF j >= Len(sorted) \/ k < hist[sorted[j]] THEN sorted[j]
    ELSE KthSmallest(hist, sorted, j + 1, k - hist[sorted[j]])

\* roll_quantile's output for one window, interpolation 'linear'
WindowQuantile(hist, sorted, nobs) ==
    LET pos  == floor_min_quant * (nobs - 1)
        idx  == pos \div 100
        frac == pos % 100
        vlow == KthSmallest(hist, sorted, 1, idx)
    IN  IF frac = 0 THEN vlow
        ELSE vlow + ((KthSmallest(hist, sorted, 1, idx + 1) - vlow) * frac) \div 100

\* the window after element i has entered and element i - window has left
RollAdvance(xs, w, i, window) ==
    LET added == IF IsNaN(xs[i]) THEN w
                 ELSE [hist |-> [w.hist EXCEPT ![xs[i]] = @ + 1], nobs |-> w.nobs + 1]
    IN  IF i > window /\ ~IsNaN(xs[i - window])
        THEN [hist |-> [added.hist EXCEPT ![xs[i - window]] = @ - 1],
              nobs |-> added.nobs - 1]
        ELSE added

RECURSIVE RollRange(_, _, _, _, _, _, _)
\* rolling(...).quantile(...) over elements lo..hi, w being the window before lo
RollRange(xs, sorted, w, lo, hi, window, minp) ==
    IF lo > hi THEN [out |-> <<>>, w |-> w]
    ELSE IF lo = hi
    THEN LET nw == RollAdvance(xs, w, lo, window)
         IN  [out |-> <<IF nw.nobs >= minp
                        THEN WindowQuantile(nw.hist, sorted, nw.nobs)
                        ELSE NaN>>,
              w   |-> nw]
    ELSE LET mid   == (lo + hi) \div 2
             left  == RollRange(xs, sorted, w, lo, mid, window, minp)
             right == RollRange(xs, sorted, left.w, mid + 1, hi, window, minp)
         IN  [out |-> left.out \o right.out, w |-> right.w]

\* vol.rolling(min_periods=minp, window=window).quantile(floor_min_quant)
RollingQuantile(xs, window, minp) ==
    LET sorted == DistinctValues(xs)
        w0     == [hist |-> [v \in {sorted[j] : j \in DOMAIN sorted} |-> 0], nobs |-> 0]
    IN  RollRange(xs, sorted, w0, 1, Len(xs), window, minp).out

RECURSIVE FFillRange(_, _, _, _)
\* ffill over elements lo..hi, last being the filled value before lo
FFillRange(xs, last, lo, hi) ==
    IF lo > hi THEN <<>>
    ELSE IF lo = hi THEN <<IF IsNaN(xs[lo]) THEN last ELSE xs[lo]>>
    ELSE LET mid  == (lo + hi) \div 2
             left == FFillRange(xs, last, lo, mid)
         IN  left \o FFillRange(xs, left[Len(left)], mid + 1, hi)

ffill(xs) == FFillRange(xs, NaN, 1, Len(xs))

\* np.maximum: NaN where either argument is NaN
FloatMaximum(x, y) == IF IsNaN(x) \/ IsNaN(y) THEN NaN ELSE IF x >= y THEN x ELSE y

\* vol_min.iloc[0] = 0.0 raises IndexError on a frame without rows
VolFloorRaises(vol) == Size(vol) = 0

\* the reference of lines 78-85 without the ffill
VolMinNoFill(vol) ==
    LET rolled == RollingQuantile(vol.values, floor_days, floor_min_periods)
    IN  Frame(vol.index, [rolled EXCEPT ![1] = 0])

\* vol_min after lines 78-85
VolMinOf(vol) ==
    LET rolled == RollingQuantile(vol.values, floor_days, floor_min_periods)
    IN  Frame(vol.index, ffill([rolled EXCEPT ![1] = 0]))

\* the floored series is the clamped input, the reference ignored
VolFlooredIgnoringMin(vol, vmin) == vol

\* np.maximum(vol, vol_min), line 88
VolFloored(vol, vmin) ==
    Frame(vol.index,
          [i \in DOMAIN vol.values |-> FloatMaximum(vol.values[i], vmin.values[i])])

(***************************************************************************)
(* The request body and int() (lines 17-19).  A JSON value is a record     *)
(* [kind, text, num]; a string is the sequence of its characters.          *)
(***************************************************************************)
JMissing == [kind |-> "missing", text |-> <<>>, num |-> 0]
JNull == [kind |-> "null", text |-> <<>>, num |-> 0]
JInt(n) == [kind |-> "int", text |-> <<>>, num |-> n]
JStr(t) == [kind |-> "str", text |-> t, num |-> 0]

DigitValue ==
    "0" :> 0 @@ "1" :> 1 @@ "2" :> 2 @@ "3" :> 3 @@ "4" :> 4 @@
    "5" :> 5 @@ "6" :> 6 @@ "7" :> 7 @@ "8" :> 8 @@ "9" :> 9

RECURSIVE StripLeft(_)
StripLeft(t) == IF t # <<>> /\ Head(t) = " " THEN StripLeft(Tail(t)) ELSE t

RECURSIVE StripRight(_)
StripRight(t) ==
    IF t # <<>> /\ t[Len(t)] = " " THEN StripRight(SubSeq(t, 1, Len(t) - 1)) ELSE t

RECURSIVE DigitsToInt(_)
DigitsToInt(ds) ==
    IF ds = <<>> THEN 0
    ELSE 10 * DigitsToInt(SubSeq(ds, 1, Len(ds) - 1)) + DigitValue[ds[Len(ds)]]

NoError == [type |-> "", message |-> ""]
Raised(type, message) == [type |-> type, message |-> message]

\* int(text): surrounding whitespace, an optional sign, one or more digits
PyIntOfText(t) ==
    LET s      == StripRight(StripLeft(t))
        signed == s # <<>> /\ s[1] \in {"+", "-"}
        ds     == IF signed THEN Tail(s) ELSE s
    IN  IF ds # <<>> /\ \A i \in DOMAIN ds : ds[i] \in DOMAIN DigitValue
        THEN [error |-> NoError,
              value |-> IF signed /\ s[1] = "-" THEN 0 - DigitsToInt(ds)
                        ELSE DigitsToInt(ds)]
        ELSE [error |-> Raised("ValueError", "invalid literal for int() with base 10"),
              value |-> 0]

\* int(v) of a JSON value that is present
PyInt(v) ==
    CASE v.kind = "int" -> [error |-> NoError, value |-> v.num]
      [] v.kind = "str" -> PyIntOfText(v.text)
      [] OTHER -> [error |-> Raised("TypeError", "int() argument must be a string or a number"),
                   value |-> 0]

\* data[key] of a dict: KeyError when the key is absent
Subscript(data, key) ==
    IF data[key].kind = "missing"
    THEN [error |-> Raised("KeyError", key), value |-> JMissing]
    ELSE [error |-> NoError, value |-> data[key]]

(***************************************************************************)
(* The store, as the client sees it: each table.query either raises or     *)
(* returns a page of items and, possibly, a LastEvaluatedKey.              *)
(***************************************************************************)
NoKey == ""
StoreKeys == {"k1", "k2"}
StoreFaults == {"ProvisionedThroughputExceededException", "AccessDeniedException"}

Observation(ts, price) == [UnixDateTime |-> ts, Price |-> price]

StorePages ==
    { <<>>,
      <<Observation(5, 1200)>>,
      <<Observation(SecondsPerDay + 7, 1224), Observation(SecondsPerDay - 1, 1212)>> }

\* what the n-th query of a request may return (at most MaxPages pages)
StoreResponses(n) ==
    [ok : {TRUE}, Items : StorePages, fault : {""},
     LastEvaluatedKey : IF n < MaxPages THEN StoreKeys \cup {NoKey} ELSE {NoKey}]
    \cup
    [ok : {FALSE}, Items : {<<>>}, fault : StoreFaults, LastEvaluatedKey : {NoKey}]

RetrievalError ==
    Raised("ValueError", "Error occurred while retrieving prices from DynamoDB")

NoResult == [rule |-> "", instrument |-> <<>>]

(***************************************************************************)
(* The handler robust_volatility_calculation (lines 16-33), one action per *)
(* statement that calls out.                                               *)
(***************************************************************************)
Fail(exc) == /\ pc' = "failed"
             /\ error' = exc
             /\ UNCHANGED result

\* a handler that leaves int(start_time) to the store client
ParseRequestLate ==
    /\ pc = "start"
    /\ LET inst == Subscript(body, "instrument")
       IN  IF inst.error # NoError
           THEN Fail(inst.error) /\ UNCHANGED <<instrument, start_time>>
           ELSE /\ pc' = "retrieve"
                /\ instrument' = inst.value.text
                /\ start_time' = IF body.start_time.kind = "int"
                                 THEN body.start_time.num ELSE 0
                /\ UNCHANGED <<error, result>>
    /\ UNCHANGED <<body, calls>>
    /\ UNCHANGED store_vars
    /\ UNCHANGED stage_vars

\* lines 17-19
ParseRequest ==
    /\ pc = "start"
    /\ LET inst == Subscript(body, "instrument")
           st   == Subscript(body, "start_time")
           num  == PyInt(st.value)
       IN  IF inst.error # NoError
           THEN Fail(inst.error) /\ UNCHANGED <<instrument, start_time>>
           ELSE IF st.error # NoError
           THEN Fail(st.error) /\ instrument' = inst.value.text
                /\ UNCHANGED start_time
           ELSE IF num.error # NoError
           THEN Fail(num.error) /\ instrument' = inst.value.text
                /\ UNCHANGED start_time
           ELSE /\ pc' = "retrieve"
                /\ instrument' = inst.value.text
                /\ start_time' = num.value
                /\ UNCHANGED <<error, result>>
    /\ UNCHANGED <<body, calls>>
    /\ UNCHANGED store_vars
    /\ UNCHANGED stage_vars

\* a table.query whose failure is logged and swallowed: the items of the
\* earlier pages are returned
TableQuerySwallow(key, et, resp) ==
    /\ queries' = Append(queries,
                         [Instrument |-> instrument, from |-> start_time,
                          to |-> et, ExclusiveStartKey |-> key])
    /\ now' = now + 1
    /\ IF resp.ok
       THEN /\ items' = items \o resp.Items
            /\ received' = Append(received,
                                  [Items |-> resp.Items,
                                   LastEvaluatedKey |-> resp.LastEvaluatedKey])
            /\ last_key' = resp.LastEvaluatedKey
            /\ IF resp.LastEvaluatedKey # NoKey
               THEN pc' = "paging" /\ UNCHANGED raw_prices
               ELSE pc' = "aggregate" /\ raw_prices' = items'
            /\ UNCHANGED <<fault, log, error, result>>
       ELSE /\ fault' = resp.fault
            /\ log' = Append(log, [message |-> RetrievalError.message,
                                   args |-> <<resp.fault>>])
            /\ pc' = "aggregate"
            /\ raw_prices' = items
            /\ UNCHANGED <<items, received, last_key, error, result>>
    /\ UNCHANGED request_vars
    /\ UNCHANGED <<prices, ewvol_returned, volatility, cutted_vol, vol_min,
                   floored_volatility>>

\* one table.query call with ExclusiveStartKey key (NoKey: none), until et
TableQuery(key, et, resp) ==
    /\ queries' = Append(queries,
                         [Instrument |-> instrument, from |-> start_time,
                          to |-> et, ExclusiveStartKey |-> key])
    /\ now' = now + 1
    /\ IF resp.ok
       THEN /\ items' = items \o resp.Items
            /\ received' = Append(received,
                                  [Items |-> resp.Items,
                                   LastEvaluatedKey |-> resp.LastEvaluatedKey])
            /\ last_key' = resp.LastEvaluatedKey
            /\ IF resp.LastEvaluatedKey # NoKey
               THEN pc' = "paging" /\ UNCHANGED raw_prices
               ELSE pc' = "aggregate" /\ raw_prices' = items'
            /\ UNCHANGED <<fault, log, error, result>>
       ELSE /\ fault' = resp.fault
            /\ log' = Append(log, [message |-> RetrievalError.message,
                                   args |-> <<resp.fault>>])
            /\ Fail(RetrievalError)
            /\ UNCHANGED <<items, received, last_key, raw_prices>>
    /\ UNCHANGED request_vars
    /\ UNCHANGED <<prices, ewvol_returned, volatility, cutted_vol, vol_min,
                   floored_volatility>>

\* lines 36-45: the call of retrieve_prices_from_dynamodb and its first query
QueryFirst ==
    /\ pc = "retrieve"
    /\ calls' = Append(calls, "retrieve_prices_from_dynamodb")
    /\ end_time' = now
    /\ \E resp \in StoreResponses(1) : TableQuery(NoKey, now, resp)

\* a follow-up query that starts over instead of passing the key on
QueryNextFromStart ==
    /\ pc = "paging"
    /\ UNCHANGED <<calls, end_time>>
    /\ \E resp \in StoreResponses(Len(queries) + 1) : TableQuery(NoKey, end_time, resp)

\* lines 46-52: one turn of the while loop
QueryNext ==
    /\ pc = "paging"
    /\ UNCHANGED <<calls, end_time>>
    /\ \E resp \in StoreResponses(Len(queries) + 1) : TableQuery(last_key, end_time, resp)

\* line 22
Aggregate ==
    /\ pc = "aggregate"
    /\ calls' = Append(calls, "aggregate_to_day_based_prices")
    /\ IF AggregateRaises(raw_prices)
       THEN Fail(Raised("KeyError", "UnixDateTime")) /\ UNCHANGED prices
       ELSE /\ prices' = aggregate_to_day_based_prices(raw_prices)
            /\ pc' = "ewvol"
            /\ UNCHANGED <<error, result>>
    /\ UNCHANGED request_vars
    /\ UNCHANGED store_vars
    /\ UNCHANGED <<raw_prices, ewvol_returned, volatility, cutted_vol, vol_min,
                   floored_volatility>>

\* line 25
SimpleEwvolCalc ==
    /\ pc = "ewvol"
    /\ calls' = Append(calls, "simple_ewvol_calc")
    /\ volatility' = simple_ewvol_calc(prices)
    /\ ewvol_returned' = volatility'
    /\ pc' = "min_vol"
    /\ UNCHANGED <<error, result>>
    /\ UNCHANGED request_vars
    /\ UNCHANGED store_vars
    /\ UNCHANGED <<raw_prices, prices, cutted_vol, vol_min, floored_volatility>>

\* line 26: the assignment of line 94 changes the caller's series too
ApplyMinVol ==
    /\ pc = "min_vol"
    /\ calls' = Append(calls, "apply_min_vol")
    /\ cutted_vol' = apply_min_vol(volatility)
    /\ volatility' = cutted_vol'
    /\ pc' = "vol_floor"
    /\ UNCHANGED <<error, result>>
    /\ UNCHANGED request_vars
    /\ UNCHANGED store_vars
    /\ UNCHANGED <<raw_prices, prices, ewvol_returned, vol_min, floored_volatility>>

\* line 28
ApplyVolFloor ==
    /\ pc = "vol_floor"
    /\ calls' = Append(calls, "apply_vol_floor")
    /\ IF VolFloorRaises(cutted_vol)
       THEN /\ Fail(Raised("IndexError", "index 0 is out of bounds for axis 0 with size 0"))
            /\ vol_min' = Frame(cutted_vol.index, <<>>)
            /\ UNCHANGED floored_volatility
       ELSE /\ vol_min' = VolMinOf(cutted_vol)
            /\ floored_volatility' = VolFloored(cutted_vol, vol_min')
            /\ pc' = "respond"
            /\ UNCHANGED <<error, result>>
    /\ UNCHANGED request_vars
    /\ UNCHANGED store_vars
    /\ UNCHANGED <<raw_prices, prices, ewvol_returned, volatility, cutted_vol>>

\* lines 30-33
Respond ==
    /\ pc = "respond"
    /\ result' = [rule |-> "Robust Volatility Series", instrument |-> instrument]
    /\ pc' = "done"
    /\ UNCHANGED <<error, calls>>
    /\ UNCHANGED request_vars
    /\ UNCHANGED store_vars
    /\ UNCHANGED stage_vars

(***************************************************************************)
(* Specifications.                                                         *)
(***************************************************************************)
InstrumentInputs == {JMissing, JStr(<<"E", "S">>)}

StartTimeInputs ==
    { JMissing, JNull, JInt(0), JStr(<<"8", "6">>), JStr(<<" ", "7">>),
      JStr(<<"a", "b", "c">>), JStr(<<"1", "a">>), JStr(<<>>), JStr(<<"-">>) }

Bodies == [instrument : InstrumentInputs, start_time : StartTimeInputs]

\* the state of a process before a request: nothing run, nothing fetched
Idle ==
    /\ instrument = <<>>
    /\ start_time = 0
    /\ now = SecondsPerDay * (MaxDay + 1)
    /\ end_time = 0
    /\ last_key = NoKey
    /\ items = <<>>
    /\ queries = <<>>
    /\ received = <<>>
    /\ fault = ""
    /\ log = <<>>
    /\ error = NoError
    /\ result = NoResult
    /\ calls = <<>>

NothingComputed ==
    /\ prices = EmptyFrame
    /\ ewvol_returned = EmptyFrame
    /\ volatility = EmptyFrame
    /\ cutted_vol = EmptyFrame
    /\ vol_min = EmptyFrame
    /\ floored_volatility = EmptyFrame

\* one request, from the arrival of its body to the response or the fault
Init ==
    /\ pc = "start"
    /\ body \in Bodies
    /\ Idle
    /\ raw_prices = <<>>
    /\ NothingComputed

Next ==
    \/ ParseRequest
    \/ QueryFirst
    \/ QueryNext
    \/ Aggregate
    \/ SimpleEwvolCalc
    \/ ApplyMinVol
    \/ ApplyVolFloor
    \/ Respond

Spec == Init /\ [][Next]_vars

ValidBody == [instrument |-> JStr(<<"E", "S">>), start_time |-> JInt(0)]

\* aggregate_to_day_based_prices on every list of at most MaxObs observations
ObservationInputs ==
    { Observation(d * SecondsPerDay + o, p) :
        d \in 0..MaxDay, o \in {0, SecondsPerDay - 1}, p \in {1200, 1224} }

RawInputs == UNION { [1..n -> ObservationInputs] : n \in 0..MaxObs }

InitAgg ==
    /\ pc = "aggregate"
    /\ body = ValidBody
    /\ Idle
    /\ raw_prices \in RawInputs
    /\ NothingComputed

NextAgg == Aggregate

SpecAgg == InitAgg /\ [][NextAgg]_vars

\* simple_ewvol_calc on daily series of at most MaxDays days: any pattern of
\* missing days, the prices alternating between the two of a pair
PricePairs == { <<1200, 1200>>, <<1200, 1224>>, <<0, 12>> }

DailyInputs ==
    { Frame([i \in 1..n |-> i - 1],
            [i \in 1..n |-> IF i \in missing THEN NaN ELSE pair[1 + (i % 2)]]) :
        n \in 0..MaxDays,
        missing \in SUBSET (1..MaxDays), pair \in PricePairs }

InitEwm ==
    /\ pc = "ewvol"
    /\ body = ValidBody
    /\ Idle
    /\ raw_prices = <<>>
    /\ prices \in DailyInputs
    /\ ewvol_returned = EmptyFrame
    /\ volatility = EmptyFrame
    /\ cutted_vol = EmptyFrame
    /\ vol_min = EmptyFrame
    /\ floored_volatility = EmptyFrame

NextEwm == SimpleEwvolCalc

SpecEwm == InitEwm /\ [][NextEwm]_vars

\* apply_min_vol and apply_vol_floor on series made of a run of missing
\* values, a run of one level, a run of missing values and a run of another
VolLevels == { 5 * k : k \in 0..MaxVolLevel }
LeadLens == {0} \cup { min_periods - 1 + k : k \in 0..MaxLead }
BodyLens == {0, 1, floor_min_periods - 1, floor_min_periods}
GapLens == {0, floor_days - floor_min_periods + 1}
TailLens == {0, 1, 6}

RunSeries(lead, v1, b, gap, v2, t) ==
    [i \in 1..(lead + b + gap + t) |->
        IF i <= lead THEN NaN
        ELSE IF i <= lead + b THEN v1
        ELSE IF i <= lead + b + gap THEN NaN
        ELSE v2]

VolInputs ==
    { Frame([i \in 1..(lead + b + gap + t) |-> i - 1],
            RunSeries(lead, v1, b, gap, v2, t)) :
        lead \in LeadLens, v1 \in VolLevels, b \in BodyLens,
        gap \in GapLens, v2 \in VolLevels, t \in TailLens }

InitVol ==
    /\ pc = "min_vol"
    /\ body = ValidBody
    /\ Idle
    /\ raw_prices = <<>>
    /\ prices = EmptyFrame
    /\ volatility \in VolInputs
    /\ ewvol_returned = volatility
    /\ cutted_vol = EmptyFrame
    /\ vol_min = EmptyFrame
    /\ floored_volatility = EmptyFrame

NextVol == ApplyMinVol \/ ApplyVolFloor

SpecVol == InitVol /\ [][NextVol]_vars

(***************************************************************************)
(* Properties.                                                             *)
(***************************************************************************)
Called(f) == \E k \in DOMAIN calls : calls[k] = f

RECURSIVE NonMissingCounts(_, _, _)
\* c[k] = the number of non-missing values among xs[lo..lo+k-1]
NonMissingCounts(xs, lo, hi) ==
    IF lo > hi THEN <<>>
    ELSE IF lo = hi THEN <<IF IsNaN(xs[lo]) THEN 0 ELSE 1>>
    ELSE LET mid   == (lo + hi) \div 2
             left  == NonMissingCounts(xs, lo, mid)
             right == NonMissingCounts(xs, mid + 1, hi)
         IN  left \o [k \in DOMAIN right |-> right[k] + left[Len(left)]]

\* the number of non-missing values in the window of floor_days ending at i
InWindow(counts, i) ==
    counts[i] - (IF i > floor_days THEN counts[i - floor_days] ELSE 0)

FloorReturned == pc \in {"respond", "done"}

\* C1, as stated: apply_vol_floor returns a series with the index of its
\* clamped input whose value at every index is >= the clamped input, >= the
\* forward-filled reference vol_min and >= 1e-10.
FlooredEverywhereAtLeast ==
    FloorReturned =>
        /\ floored_volatility.index = cutted_vol.index
        /\ Len(floored_volatility.values) = Len(cutted_vol.values)
        /\ \A i \in DOMAIN cutted_vol.values :
              /\ FloatGe(floored_volatility.values[i], cutted_vol.values[i])
              /\ FloatGe(floored_volatility.values[i], vol_min.values[i])
              /\ FloatGe(floored_volatility.values[i], vol_abs_min)

\* C1, amended: the same index; where the clamped input has a value the
\* output is >= that value, >= vol_min there and >= 1e-10; where the clamped
\* input is "no data" the output is "no data".
FlooredAtLeastWhereData ==
    FloorReturned =>
        /\ floored_volatility.index = cutted_vol.index
        /\ Len(floored_volatility.values) = Len(cutted_vol.values)
        /\ \A i \in DOMAIN cutted_vol.values :
              IF IsNaN(cutted_vol.values[i])
              THEN IsNaN(floored_volatility.values[i])
              ELSE /\ FloatGe(floored_volatility.values[i], cutted_vol.values[i])
                   /\ FloatGe(floored_volatility.values[i], vol_min.values[i])
                   /\ FloatGe(floored_volatility.values[i], vol_abs_min)

\* the floor has returned for a series with missing days and with a day on
\* which the reference lifts the clamped value
FloorLiftsSomeDay ==
    /\ FloorReturned
    /\ \E i \in DOMAIN cutted_vol.values : IsNaN(cutted_vol.values[i])
    /\ \E i \in DOMAIN cutted_vol.values :
          /\ ~IsNaN(cutted_vol.values[i])
          /\ floored_volatility.values[i] > cutted_vol.values[i]

\* C2: after the first-day override and the forward fill, vol_min is 0.0 at
\* index 0, has no "no data" entry, and at every later index whose window
\* holds fewer than floor_min_periods values equals its previous entry.
ReferenceFilled ==
    FloorReturned =>
        LET counts == NonMissingCounts(cutted_vol.values, 1, Len(cutted_vol.values))
        IN  /\ vol_min.index = cutted_vol.index
            /\ Len(vol_min.values) = Len(cutted_vol.values)
            /\ vol_min.values[1] = 0
            /\ \A i \in DOMAIN vol_min.values : ~IsNaN(vol_min.values[i])
            /\ \A i \in 2..Len(vol_min.values) :
                  InWindow(counts, i) < floor_min_periods
                      => vol_min.values[i] = vol_min.values[i - 1]

\* the reference was established by a real quantile and is then carried
\* over days whose window no longer holds floor_min_periods values
ReferenceCarriedPastWindow ==
    /\ FloorReturned
    /\ LET counts == NonMissingCounts(cutted_vol.values, 1, Len(cutted_vol.values))
       IN  \E i \in 2..Len(vol_min.values) :
              /\ InWindow(counts, i) < floor_min_periods
              /\ InWindow(counts, i - 1) >= floor_min_periods
              /\ vol_min.values[i] > 0

\* C3: apply_min_vol returns a series with the index of its input in which
\* every entry below 1e-10 is 1e-10, every entry >= 1e-10 is unchanged and
\* every "no data" entry is "no data"; no entry is below 1e-10.
ClampedExactly ==
    Called("apply_min_vol") =>
        /\ cutted_vol.index = ewvol_returned.index
        /\ Len(cutted_vol.values) = Len(ewvol_returned.values)
        /\ \A i \in DOMAIN ewvol_returned.values :
              LET x == ewvol_returned.values[i]
                  y == cutted_vol.values[i]
              IN  /\ IsNaN(x) => IsNaN(y)
                  /\ (~IsNaN(x) /\ x < vol_abs_min) => y = vol_abs_min
                  /\ (~IsNaN(x) /\ x >= vol_abs_min) => y = x
                  /\ ~FloatLt(y, vol_abs_min)

\* the clamp has run on a series with a missing entry, an entry below and
\* an entry above 1e-10
ClampSawEveryKind ==
    /\ Called("apply_min_vol")
    /\ \E i \in DOMAIN ewvol_returned.values : IsNaN(ewvol_returned.values[i])
    /\ \E i \in DOMAIN ewvol_returned.values :
          FloatLt(ewvol_returned.values[i], vol_abs_min)
    /\ \E i \in DOMAIN ewvol_returned.values :
          FloatLt(vol_abs_min, ewvol_returned.values[i])

\* the number of non-missing values among the first i of xs
ObservedUpTo(xs, i) == Cardinality({ j \in 1..i : ~IsNaN(xs[j]) })

ObservedOn(raw, d) == { i \in DOMAIN raw : raw[i].UnixDateTime \div 86400 = d }

RECURSIVE PriceSum(_, _)
PriceSum(raw, I) ==
    IF I = {} THEN 0
    ELSE LET i == CHOOSE i \in I : TRUE
         IN  raw[i].Price + PriceSum(raw, I \ {i})

\* C5: for a non-empty list of observations aggregate_to_day_based_prices
\* returns one entry per calendar day from the earliest to the latest
\* observed day, in increasing order without a gap; a day with observations
\* holds the arithmetic mean of its prices, a day without holds "no data".
DailyMeansContiguous ==
    (Called("aggregate_to_day_based_prices") /\ raw_prices # <<>>) =>
        LET observed == { raw_prices[i].UnixDateTime \div 86400 : i \in DOMAIN raw_prices }
            n        == Len(prices.index)
        IN  /\ pc # "failed"
            /\ Len(prices.values) = n
            /\ n = SetMax(observed) - SetMin(observed) + 1
            /\ prices.index[1] = SetMin(observed)
            /\ \A k \in 2..n : prices.index[k] = prices.index[k - 1] + 1
            /\ \A k \in 1..n :
                  LET I == ObservedOn(raw_prices, prices.index[k])
                  IN  IF I = {} THEN IsNaN(prices.values[k])
                      ELSE /\ ~IsNaN(prices.values[k])
                           /\ prices.values[k] * Cardinality(I) = PriceSum(raw_prices, I)

\* observations out of order, two different prices on one day, a day between
\* without any
AggregatedAcrossGap ==
    /\ Called("aggregate_to_day_based_prices")
    /\ Len(raw_prices) > 1
    /\ raw_prices[1].UnixDateTime > raw_prices[2].UnixDateTime
    /\ \E k \in DOMAIN prices.values : IsNaN(prices.values[k])
    /\ \E i, j \in DOMAIN raw_prices :
          /\ raw_prices[i].UnixDateTime \div 86400 = raw_prices[j].UnixDateTime \div 86400
          /\ raw_prices[i].Price # raw_prices[j].Price

Success == [rule |-> "Robust Volatility Series", instrument |-> <<"E", "S">>]

\* C6, as stated: when the store returns no observation every stage returns
\* an empty series, none raises, and the request ends with the success
\* response.
EmptyResultCompletes ==
    (Called("aggregate_to_day_based_prices") /\ raw_prices = <<>>) =>
        /\ error = NoError
        /\ pc # "failed"
        /\ pc = "done" =>
              /\ result = Success
              /\ prices = EmptyFrame
              /\ volatility = EmptyFrame
              /\ cutted_vol = EmptyFrame
              /\ floored_volatility = EmptyFrame

RECURSIVE PageItems(_)
\* the items of the responses rs, in the order of the responses
PageItems(rs) == IF rs = <<>> THEN <<>> ELSE Head(rs).Items \o PageItems(Tail(rs))

RetrievalReturned == pc = "aggregate" \/ Called("aggregate_to_day_based_prices")

\* C7: the first query carries no start key; each follow-up query answers a
\* response that carried a LastEvaluatedKey, passes exactly that key and the
\* same key condition; the retrieval returns at the first response without a
\* key, and what it returns, and what aggregation starts from, is the
\* concatenation in page order of the items of every page received.
PagesFollowedToTheEnd ==
    /\ queries # <<>> => queries[1].ExclusiveStartKey = NoKey
    /\ \A k \in 2..Len(queries) :
          /\ received[k - 1].LastEvaluatedKey # NoKey
          /\ queries[k].ExclusiveStartKey = received[k - 1].LastEvaluatedKey
          /\ queries[k].Instrument = queries[1].Instrument
          /\ queries[k].from = queries[1].from
          /\ queries[k].to = queries[1].to
    /\ pc = "paging" =>
          /\ Len(queries) = Len(received)
          /\ received[Len(received)].LastEvaluatedKey # NoKey
          /\ ~Called("aggregate_to_day_based_prices")
    /\ RetrievalReturned =>
          /\ Len(queries) = Len(received)
          /\ received[Len(received)].LastEvaluatedKey = NoKey
          /\ raw_prices = PageItems(received)

\* a retrieval of several pages has returned and its items were aggregated
SeveralPagesAggregated ==
    /\ pc = "ewvol"
    /\ Len(received) > 2
    /\ received[1].Items # <<>>
    /\ received[Len(received)].Items # <<>>

\* C8: when a query fails, on the first page or on a later one, the cause is
\* logged, the one generic error is raised whatever the fault, no further
\* query is issued, no item of the earlier pages is returned, no pipeline
\* stage runs and no success response is returned.
RetrievalFailureAborts ==
    fault # "" =>
        /\ pc = "failed"
        /\ error = Raised("ValueError",
                          "Error occurred while retrieving prices from DynamoDB")
        /\ Len(log) = 1
        /\ log[1].args = <<fault>>
        /\ Len(queries) = Len(received) + 1
        /\ raw_prices = <<>>
        /\ calls = <<"retrieve_prices_from_dynamodb">>
        /\ NothingComputed
        /\ result = NoResult

\* a continuation page failed after items had been accumulated
FailedOnContinuationPage ==
    /\ fault # ""
    /\ Len(received) > 1
    /\ items # <<>>

\* t is an integer literal: blanks, an optional sign, digits, blanks
IsIntegerText(t) ==
    \E a \in 0..Len(t), b \in 0..Len(t), sgn \in {0, 1} :
        /\ sgn <= a /\ a < b
        /\ \A i \in 1..(a - sgn) : t[i] = " "
        /\ sgn = 1 => t[a] \in {"+", "-"}
        /\ \A i \in (a + 1)..b : t[i] \in {"0", "1", "2", "3", "4", "5", "6", "7", "8", "9"}
        /\ \A i \in (b + 1)..Len(t) : t[i] = " "

\* the body lacks instrument or start_time, or start_time is no integer
Malformed(b) ==
    \/ b.instrument.kind = "missing"
    \/ b.start_time.kind = "missing"
    \/ b.start_time.kind = "null"
    \/ b.start_time.kind = "str" /\ ~IsIntegerText(b.start_time.text)

\* C9: for a body without instrument, without start_time or with a
\* start_time that is no integer, the handler fails before any store query:
\* no query is ever issued for that request.
MalformedNeverQueries ==
    Malformed(body) =>
        /\ queries = <<>>
        /\ calls = <<>>
        /\ pc \in {"start", "failed"}
        /\ result = NoResult

\* a request whose start_time is an unparseable string has failed
UnparseableStartTimeFailed ==
    /\ pc = "failed"
    /\ body.instrument.kind = "str"
    /\ body.start_time.kind = "str"
    /\ Malformed(body)

\* C10, as stated: the error of a malformed request is of another kind than
\* the error of a failed store query.
MalformedErrorDistinct ==
    (pc = "failed" /\ Malformed(body)) => error.type # RetrievalError.type

====
